---- MODULE Spec2Model ----
(***************************************************************************)
(* A model of the ASL recognizer: recognize() of my_recognizer.py and the  *)
(* four model selectors of my_model_selectors.py.                          *)
(*                                                                         *)
(* GaussianHMM.fit, GaussianHMM.score, KFold and combine_sequences are     *)
(* external: a fit either raises or yields a model, a score either raises  *)
(* or yields a finite log-likelihood, both chosen nondeterministically at  *)
(* the call.  Log-likelihoods are integers; BIC is held in thousandths     *)
(* (ln N is a table in thousandths), averages and the DIC are exact        *)
(* fractions <<numerator, denominator>>.                                   *)
(***************************************************************************)
EXTENDS Integers, Sequences, FiniteSets, TLC

VARIABLES
    \* ---- recognize() ----
    rpc,            \* position in recognize(): "idle", "for_item", "for_model", "returned", "raised"
    models,         \* the models dict, as its keys in iteration order
    n_items,        \* len(test_set.get_all_Xlengths())
    word_index,     \* outer loop variable (0-based)
    model_pos,      \* position of the inner loop in models.items() (1-based)
    best_score,     \* recognize(): best_score
    best_guess,     \* recognize(): best_guess
    word_prob,      \* recognize(): word_prob
    probabilities,  \* recognize(): probabilities
    guesses,        \* recognize(): guesses
    score_calls,    \* history: every model.score call made, in order
    \* ---- ModelSelector and its subclasses ----
    pc,             \* "new", "ctor_raised", "constructed", "loop", "done", "select_raised"
    strategy,       \* the subclass: "Constant", "BIC", "DIC", "CV"
    self,           \* the fields __init__ stores
    full_fit_raises,\* the state counts for which a fit on (self.X, self.lengths) raises
    n_component,    \* loop variable of select()
    best_sel_score, \* best_bic_score / best_dic_score / best_score, a fraction
    best_model,     \* best_model
    model,          \* SelectorCV.select(): the local variable model
    attempts,       \* history: one record per candidate the loop body ran for
    result          \* what select() returned

vars == <<rpc, models, n_items, word_index, model_pos, best_score, best_guess,
          word_prob, probabilities, guesses, score_calls,
          pc, strategy, self, full_fit_raises, n_component, best_sel_score, best_model, model,
          attempts, result>>

recVars == <<rpc, models, n_items, word_index, model_pos, best_score, best_guess,
             word_prob, probabilities, guesses, score_calls>>

selVars == <<pc, strategy, self, full_fit_raises, n_component, best_sel_score, best_model, model,
             attempts, result>>

----------------------------------------------------------------------------
(* Bounds of the model *)

\* most test items in a test set
MaxItems == 2
\* most entries in the models mapping
MaxModels == 2
\* largest state count a search range or n_constant names
MaxStates == 3
\* the numbers of example sequences of the target word: no fold, two folds, three
SequenceCounts == {1, 2, 3}

Vocabulary == {"BOOK", "JOHN", "VEGETABLE"}

\* the finite log-likelihoods a score call can return
LogLValues == {-2, -1}

\* float("-inf") and float("inf"): below and above every value the model computes
NegInf == -1000000
PosInf == 1000000

\* Python's None, as a guess
None == "None"

----------------------------------------------------------------------------
(* recognize() *)

\* the outcomes of one model.score(current_x, current_length) call
ScoreCalls ==
    {[raises |-> TRUE, value |-> 0]} \cup {[raises |-> FALSE, value |-> v] : v \in LogLValues}

\* all orders of at most MaxModels distinct words: the possible models dicts
ModelDicts ==
    {s \in UNION {[1..n -> Vocabulary] : n \in 0..MaxModels} :
        \A i, j \in DOMAIN s : i # j => s[i] # s[j]}

\* the bare except of line 35: which failures of model.score it catches
ScoreCaught(call) == TRUE

\* the value score gets, lines 34-36
ScoreZeroOnFailure(call) == IF call.raises THEN 0 ELSE call.value
ScoreOrNegInf(call) == IF call.raises THEN NegInf ELSE call.value

\* the comparison of line 38
BetterOrEqual(score, best) == score >= best
Better(score, best) == score > best

\* probabilities.append / guesses.append, lines 44-45
PrependResult(list, x) == <<x>> \o list
AppendResult(list, x) == Append(list, x)

EmptyDict == [w \in {} |-> 0]

\* recognize(models, test_set) is called: lines 20-22
RecognizeCall ==
    /\ rpc = "idle"
    /\ \E m \in ModelDicts, n \in 0..MaxItems :
        /\ models' = m
        /\ n_items' = n
    /\ probabilities' = <<>>
    /\ guesses' = <<>>
    /\ word_index' = 0
    /\ rpc' = "for_item"
    /\ UNCHANGED <<model_pos, best_score, best_guess, word_prob, score_calls>>
    /\ UNCHANGED selVars

\* the outer loop takes the next item: lines 24-30
ItemBegin ==
    /\ rpc = "for_item"
    /\ word_index < n_items
    /\ best_score' = NegInf
    /\ best_guess' = None
    /\ word_prob' = EmptyDict
    /\ model_pos' = 1
    /\ rpc' = "for_model"
    /\ UNCHANGED <<models, n_items, word_index, probabilities, guesses, score_calls>>
    /\ UNCHANGED selVars

\* one iteration of the inner loop: lines 32-42
ScoreModel ==
    /\ rpc = "for_model"
    /\ model_pos <= Len(models)
    /\ \E call \in ScoreCalls :
        LET word == models[model_pos]
            score == ScoreOrNegInf(call)
        IN  /\ score_calls' = Append(score_calls,
                                     [item |-> word_index, word |-> word, call |-> call])
            /\ IF call.raises /\ ~ScoreCaught(call)
                 THEN /\ rpc' = "raised"
                      /\ UNCHANGED <<best_score, best_guess, word_prob, model_pos>>
                 ELSE /\ IF Better(score, best_score)
                            THEN /\ best_score' = score
                                 /\ best_guess' = word
                            ELSE UNCHANGED <<best_score, best_guess>>
                      /\ word_prob' = (word :> score) @@ word_prob
                      /\ model_pos' = model_pos + 1
                      /\ UNCHANGED rpc
    /\ UNCHANGED <<models, n_items, word_index, probabilities, guesses>>
    /\ UNCHANGED selVars

\* the inner loop is exhausted: lines 44-45
ItemEnd ==
    /\ rpc = "for_model"
    /\ model_pos > Len(models)
    /\ probabilities' = AppendResult(probabilities, word_prob)
    /\ guesses' = AppendResult(guesses, best_guess)
    /\ word_index' = word_index + 1
    /\ rpc' = "for_item"
    /\ UNCHANGED <<models, n_items, model_pos, best_score, best_guess, word_prob, score_calls>>
    /\ UNCHANGED selVars

\* the outer loop is exhausted: line 47
RecognizeReturn ==
    /\ rpc = "for_item"
    /\ word_index >= n_items
    /\ rpc' = "returned"
    /\ UNCHANGED <<models, n_items, word_index, model_pos, best_score, best_guess,
                   word_prob, probabilities, guesses, score_calls>>
    /\ UNCHANGED selVars

----------------------------------------------------------------------------
(* ModelSelector.__init__ and base_model *)

\* Python's None, as a model
NoModel == [n_components |-> 0, trained_on |-> "None"]
\* a local variable that was never assigned
Unbound == [n_components |-> 0, trained_on |-> "unbound"]
\* a fitted GaussianHMM: its state count and the data it was fitted on
FullModel(k) == [n_components |-> k, trained_on |-> "full"]
FoldModel(k) == [n_components |-> k, trained_on |-> "train_fold"]

Strategies == {"Constant", "BIC", "DIC", "CV"}

\* the fields a selector object has before __init__ has stored any
NoFields ==
    [words |-> {}, hwords |-> {}, this_word |-> "", n_sequences |-> 0, n_features |-> 0,
     n_frames |-> 0, n_constant |-> 0, min_n_components |-> 0, max_n_components |-> 0]

\* the dimensionalities and frame counts of the target word's X
FeatureDims == {1, 2}
FrameCounts == {1, 3}

\* The constructor arguments explored.  all_word_sequences and all_word_Xlengths
\* are given by their key sets, the target word's sequences by their number, its
\* X by its shape.  For each subclass the arguments its select() reads vary and
\* the others stay at one value; the lookups __init__ itself makes (this_word in
\* both dicts) vary for every subclass.  A lower bound of the range below 1 is
\* explored with SelectorBIC (the three loops share range(min, max + 1)).
CtorArgs(s) ==
    LET lookups == IF s = "DIC"
                     THEN {[w |-> w, h |-> h, t |-> t] :
                              w \in SUBSET Vocabulary, h \in SUBSET Vocabulary, t \in Vocabulary}
                     ELSE {[w |-> w, h |-> h, t |-> "BOOK"] :
                              w \in {Vocabulary, Vocabulary \ {"BOOK"}},
                              h \in {Vocabulary, Vocabulary \ {"BOOK"}}}
        ranges  == CASE s = "Constant" -> {<<2, MaxStates>>}
                     [] s = "BIC" -> (0..MaxStates) \X (0..MaxStates)
                     [] OTHER -> (1..MaxStates) \X (1..MaxStates)
        consts  == IF s = "Constant" THEN 0..MaxStates ELSE {3}
        seqs    == IF s = "CV" THEN SequenceCounts ELSE {2}
        dims    == IF s = "BIC" THEN FeatureDims ELSE {1}
        frames  == IF s = "BIC" THEN FrameCounts ELSE {3}
    IN  {[words |-> l.w, hwords |-> l.h, this_word |-> l.t, n_sequences |-> q,
          n_features |-> d, n_frames |-> f, n_constant |-> c,
          min_n_components |-> r[1], max_n_components |-> r[2]] :
            l \in lookups, r \in ranges, c \in consts, q \in seqs, d \in dims, f \in frames}

\* lines 23-24: the two dict lookups of __init__ raise KeyError on a missing word
CtorRaises(a) == a.this_word \notin a.words \/ a.this_word \notin a.hwords

\* GaussianHMM(n_components=k, ...).fit(...): whether it raises.  A model with
\* no state cannot be fitted.
FitRaises(k) == IF k < 1 THEN {TRUE} ELSE {TRUE, FALSE}

\* The fit is deterministic (fixed random_state, n_iter): on the target word's
\* full data it raises for a fixed set of state counts, whenever it is called.
FullFitFailures(s, a) ==
    LET tried == IF s = "Constant" THEN {a.n_constant}
                 ELSE a.min_n_components..a.max_n_components
    IN  {f \in SUBSET tried : \A k \in tried : FALSE \notin FitRaises(k) => k \in f}

\* a selector is constructed: lines 17-30
Construct ==
    /\ pc = "new"
    /\ \E s \in Strategies :
        \E a \in CtorArgs(s) :
            /\ strategy' = s
            /\ IF CtorRaises(a)
                 THEN /\ pc' = "ctor_raised"
                      /\ self' = NoFields
                      /\ full_fit_raises' = {}
                 ELSE /\ pc' = "constructed"
                      /\ self' = a
                      /\ full_fit_raises' \in FullFitFailures(s, a)
    /\ UNCHANGED <<n_component, best_sel_score, best_model, model, attempts, result>>
    /\ UNCHANGED recVars

\* base_model, lines 35-48: the fitted model, None when the fit raised
BaseModel(num_states, fit_raises) ==
    IF fit_raises THEN NoModel ELSE FullModel(num_states)

\* the bare except of the select() loops (lines 98, 145, 202): what it catches
CatchesValueErrorOnly(exc) == exc = "ValueError"
Catches(exc) == TRUE

----------------------------------------------------------------------------
(* fractions <<numerator, denominator>>, denominator > 0 *)

FracLess(a, b) == a[1] * b[2] < b[1] * a[2]
FracEq(a, b) == a[1] * b[2] = b[1] * a[2]

\* the history record of one candidate
Attempt(k, exc, computed, value, logL, others, folds_ok, fold_sum, refit) ==
    [k |-> k, exc |-> exc, computed |-> computed, value |-> value, logL |-> logL,
     others |-> others, folds_ok |-> folds_ok, fold_sum |-> fold_sum, refit |-> refit]

----------------------------------------------------------------------------
(* SelectorConstant *)

\* SelectorConstant.select, lines 61-62
ConstantSelect ==
    /\ pc = "constructed"
    /\ strategy = "Constant"
    /\ LET fit_raises == self.n_constant \in full_fit_raises IN
        /\ result' = BaseModel(self.n_constant, fit_raises)
        /\ attempts' = <<Attempt(self.n_constant, IF fit_raises THEN "ValueError" ELSE "none",
                                 FALSE, <<0, 1>>, 0, <<>>, 0, 0, "none")>>
    /\ pc' = "done"
    /\ UNCHANGED <<strategy, self, full_fit_raises, n_component, best_sel_score, best_model, model>>
    /\ UNCHANGED recVars

----------------------------------------------------------------------------
(* the search loops of SelectorBIC, SelectorDIC and SelectorCV *)

\* the start of select(): lines 81-84, 119-125, 160-164
SelectEnter ==
    /\ pc = "constructed"
    /\ strategy \in {"BIC", "DIC", "CV"}
    /\ best_sel_score' = IF strategy = "BIC" THEN <<PosInf, 1>> ELSE <<NegInf, 1>>
    /\ best_model' = NoModel
    /\ n_component' = self.min_n_components
    /\ model' = Unbound
    /\ attempts' = <<>>
    /\ pc' = "loop"
    /\ UNCHANGED <<strategy, self, full_fit_raises, result>>
    /\ UNCHANGED recVars

\* the end of select(): lines 101, 148, 205
SelectReturn ==
    /\ pc = "loop"
    /\ n_component > self.max_n_components
    /\ result' = best_model
    /\ pc' = "done"
    /\ UNCHANGED <<strategy, self, full_fit_raises, n_component, best_sel_score, best_model, model, attempts>>
    /\ UNCHANGED recVars

\* what the except clause of a loop body does with exc: the next candidate, or
\* the exception leaves select()
AfterBody(exc) ==
    IF exc # "none" /\ ~Catches(exc)
      THEN /\ pc' = "select_raised"
           /\ UNCHANGED n_component
      ELSE /\ pc' = "loop"
           /\ n_component' = n_component + 1

----------------------------------------------------------------------------
(* SelectorBIC *)

\* np.log(n) in thousandths, for the frame counts of the model
LnMilli(n) == CASE n = 1 -> 0 [] n = 2 -> 693 [] n = 3 -> 1099 [] OTHER -> 1386

\* line 90: the number of free parameters
FreeParameters(k, d) == k * k + 2 * k * d - 1

\* line 92: the BIC score, in thousandths
BicScore(logL, p, n) == <<(-2 * logL) * 1000 + p * LnMilli(n), 1000>>

\* line 94: whether bic_score replaces best_bic_score
BicImprovesOrTies(bic, best) == ~FracLess(best, bic)
BicImproves(bic, best) == FracLess(bic, best)

\* one iteration of SelectorBIC.select's loop: lines 84-99
BICIter ==
    /\ pc = "loop"
    /\ strategy = "BIC"
    /\ n_component <= self.max_n_components
    /\ \E call \in ScoreCalls :
        LET fit_raises == n_component \in full_fit_raises
            m   == BaseModel(n_component, fit_raises)
            exc == IF m = NoModel THEN "AttributeError"
                   ELSE IF call.raises THEN "ValueError" ELSE "none"
            p   == FreeParameters(n_component, self.n_features)
            bic == BicScore(call.value, p, self.n_frames)
        IN  /\ IF exc = "none" /\ BicImproves(bic, best_sel_score)
                 THEN /\ best_sel_score' = bic
                      /\ best_model' = m
                 ELSE UNCHANGED <<best_sel_score, best_model>>
            /\ attempts' = Append(attempts,
                   IF exc = "none"
                     THEN Attempt(n_component, exc, TRUE, bic, call.value, <<>>, 0, 0, "none")
                     ELSE Attempt(n_component, exc, FALSE, <<0, 1>>, 0, <<>>, 0, 0, "none"))
            /\ AfterBody(exc)
    /\ UNCHANGED <<strategy, self, full_fit_raises, model, result>>
    /\ UNCHANGED recVars

----------------------------------------------------------------------------
(* SelectorDIC *)

\* the iteration order of the words dict
VocabularyOrder == <<"BOOK", "JOHN", "VEGETABLE">>

\* line 123: the words of self.words other than this_word, in dict order
AginstWords(f) ==
    LET Other(w) == w \in f.words /\ w # f.this_word
    IN  SelectSeq(VocabularyOrder, Other)

RECURSIVE SumValues(_, _)
\* the sum of the values of the first n calls of a sequence of calls
SumValues(calls, n) == IF n = 0 THEN 0 ELSE SumValues(calls, n - 1) + calls[n].value

\* line 139: logL - sum_other_logL / (len(self.words) - 1), as a fraction
DicScore(logL, sum_other, n_words) == <<logL * (n_words - 1) - sum_other, n_words - 1>>

\* line 141: whether dic_score replaces best_dic_score
DicImproves(dic, best) == FracLess(best, dic)

\* one iteration of SelectorDIC.select's loop: lines 125-146
DICIter ==
    /\ pc = "loop"
    /\ strategy = "DIC"
    /\ n_component <= self.max_n_components
    /\ LET aginst_words == AginstWords(self) IN
       \E call \in ScoreCalls, others \in [1..Len(aginst_words) -> ScoreCalls] :
        LET fit_raises == n_component \in full_fit_raises
            m       == BaseModel(n_component, fit_raises)
            failing == {i \in 1..Len(aginst_words) :
                           aginst_words[i] \notin self.hwords \/ others[i].raises}
            first   == IF failing = {} THEN 0
                       ELSE CHOOSE i \in failing : \A j \in failing : i <= j
            n_words == Cardinality(self.words)
            exc == IF m = NoModel THEN "AttributeError"
                   ELSE IF call.raises THEN "ValueError"
                   ELSE IF first # 0
                     THEN (IF aginst_words[first] \notin self.hwords
                             THEN "KeyError" ELSE "ValueError")
                   ELSE IF n_words - 1 = 0 THEN "ZeroDivisionError"
                   ELSE "none"
            sum_other_logL == SumValues(others, Len(aginst_words))
            dic == DicScore(call.value, sum_other_logL, n_words)
        IN  /\ IF exc = "none" /\ DicImproves(dic, best_sel_score)
                 THEN /\ best_sel_score' = dic
                      /\ best_model' = m
                 ELSE UNCHANGED <<best_sel_score, best_model>>
            /\ attempts' = Append(attempts,
                   IF exc = "none"
                     THEN Attempt(n_component, exc, TRUE, dic, call.value,
                                  [i \in 1..Len(aginst_words) |-> others[i].value], 0, 0, "none")
                     ELSE Attempt(n_component, exc, FALSE, <<0, 1>>, 0, <<>>, 0, 0, "none"))
            /\ AfterBody(exc)
    /\ UNCHANGED <<strategy, self, full_fit_raises, model, result>>
    /\ UNCHANGED recVars

----------------------------------------------------------------------------
(* SelectorCV *)

\* the outcomes of one fold: the fit on the training part, the score on the held-out part
FoldCalls(k) ==
    {[fit_raises |-> r, raises |-> c.raises, value |-> c.value] :
        r \in FitRaises(k) \ {TRUE}, c \in ScoreCalls}
    \cup {[fit_raises |-> TRUE, raises |-> FALSE, value |-> 0]}

NotRun == [fit_raises |-> TRUE, raises |-> FALSE, value |-> 0]

\* The outcomes of the score call of the single-sequence branch and of the folds
\* of one loop body.  A call the body does not reach has no outcome: the score
\* of the single-sequence branch when the sequences are folded, the folds when
\* they are not, and every fold after the first failing one (its entry is NotRun).
CvRuns(k, single, num_splits) ==
    {[single_call |-> sc, folds |-> f] :
        sc \in (IF single THEN ScoreCalls ELSE {[raises |-> TRUE, value |-> 0]}),
        f  \in (IF single THEN {[i \in 1..num_splits |-> NotRun]}
                ELSE {g \in [1..num_splits -> FoldCalls(k)] :
                        \A i \in 2..num_splits :
                            (g[i-1].fit_raises \/ g[i-1].raises) => g[i] = NotRun})}

\* line 179
NumSplits(n_sequences) == IF n_sequences < 3 THEN n_sequences ELSE 3

\* line 195: whether score replaces best_score
CvImproves(best, score) == FracLess(best, score)

\* lines 197-200: the model stored as best_model
LastFoldModel(last_model, full_refit, fold_model) == fold_model
ModelToStore(last_model, full_refit, fold_model) ==
    IF last_model = NoModel THEN full_refit ELSE last_model

\* one iteration of SelectorCV.select's loop: lines 164-203
CVIter ==
    /\ pc = "loop"
    /\ strategy = "CV"
    /\ n_component <= self.max_n_components
    /\ LET k == n_component
           num_splits == NumSplits(self.n_sequences) IN
       \E run \in CvRuns(k, self.n_sequences <= 1, num_splits) :
        LET single  == self.n_sequences <= 1
            single_fit == k \in full_fit_raises
            single_call == run.single_call
            folds == run.folds
            refit_raises == k \in full_fit_raises
            failing == {i \in 1..num_splits : folds[i].fit_raises \/ folds[i].raises}
            first   == IF failing = {} THEN 0
                       ELSE CHOOSE i \in failing : \A j \in failing : i <= j
            iter_num == IF first = 0 THEN num_splits ELSE first - 1
            fold_sum == SumValues(folds, iter_num)
            \* the exception of lines 171-192, if any
            exc_score ==
                IF single
                  THEN IF single_fit THEN "ValueError"
                       ELSE IF model = Unbound THEN "UnboundLocalError"
                       ELSE IF single_call.raises THEN "ValueError" ELSE "none"
                  ELSE IF first # 0 THEN "ValueError" ELSE "none"
            last_model == IF single /\ ~single_fit THEN FullModel(k) ELSE NoModel
            score == IF single THEN <<single_call.value, 1>> ELSE <<fold_sum, iter_num>>
            improves == exc_score = "none" /\ CvImproves(best_sel_score, score)
            refits == improves /\ last_model = NoModel
            exc == IF exc_score # "none" THEN exc_score
                   ELSE IF refits /\ refit_raises THEN "ValueError" ELSE "none"
        IN  /\ model' = IF ~single /\ ~folds[1].fit_raises THEN FoldModel(k) ELSE model
            /\ best_sel_score' = IF improves THEN score ELSE best_sel_score
            /\ best_model' = IF improves /\ exc = "none"
                               THEN ModelToStore(last_model, FullModel(k), model')
                               ELSE best_model
            /\ attempts' = Append(attempts,
                   Attempt(k, exc, exc_score = "none",
                           IF exc_score = "none" THEN score ELSE <<0, 1>>,
                           0, <<>>,
                           IF single THEN 0 ELSE iter_num,
                           IF single THEN 0 ELSE fold_sum,
                           IF ~refits THEN "none" ELSE IF refit_raises THEN "failed" ELSE "ok"))
            /\ AfterBody(exc)
    /\ UNCHANGED <<strategy, self, full_fit_raises, result>>
    /\ UNCHANGED recVars

----------------------------------------------------------------------------

Init ==
    /\ rpc = "idle"
    /\ models = <<>>
    /\ n_items = 0
    /\ word_index = 0
    /\ model_pos = 1
    /\ best_score = NegInf
    /\ best_guess = None
    /\ word_prob = EmptyDict
    /\ probabilities = <<>>
    /\ guesses = <<>>
    /\ score_calls = <<>>
    /\ pc = "new"
    /\ strategy = "Constant"
    /\ self = NoFields
    /\ full_fit_raises = {}
    /\ n_component = 0
    /\ best_sel_score = <<NegInf, 1>>
    /\ best_model = NoModel
    /\ model = Unbound
    /\ attempts = <<>>
    /\ result = NoModel

NextRecognize ==
    \/ RecognizeCall
    \/ ItemBegin
    \/ ScoreModel
    \/ ItemEnd
    \/ RecognizeReturn

SpecRecognize == Init /\ [][NextRecognize]_vars

Next ==
    \/ Construct
    \/ ConstantSelect
    \/ SelectEnter
    \/ BICIter
    \/ DICIter
    \/ CVIter
    \/ SelectReturn

Spec == Init /\ [][Next]_vars

----------------------------------------------------------------------------
(* Properties of recognize(), checked under SpecRecognize *)

\* the largest value of a non-empty row
RowMax(row) ==
    CHOOSE v \in {row[w] : w \in DOMAIN row} : \A w \in DOMAIN row : row[w] <= v

\* the position of a word in the iteration order of models
PosOf(word) == CHOOSE j \in 1..Len(models) : models[j] = word

\* C1: whenever guesses[i] is not None, probabilities[i][guesses[i]] is the
\* maximum of row i, and guesses[i] is the first word in the iteration order of
\* models that attains it.
C1_GuessIsFirstArgmax ==
    \A i \in 1..Len(guesses) :
        guesses[i] # None =>
            /\ i <= Len(probabilities)
            /\ guesses[i] \in DOMAIN probabilities[i]
            /\ probabilities[i][guesses[i]] = RowMax(probabilities[i])
            /\ \A j \in 1..Len(models) :
                  (/\ models[j] \in DOMAIN probabilities[i]
                   /\ probabilities[i][models[j]] = RowMax(probabilities[i]))
                  => PosOf(guesses[i]) <= j

\* recognize() returned, and for some item two models tied on the best score
\* and the one iterated first (not the alphabetically first) is the guess
C1_Witness ==
    /\ rpc = "returned"
    /\ models = <<"VEGETABLE", "BOOK">>
    /\ \E i \in 1..Len(guesses) :
        /\ guesses[i] = "VEGETABLE"
        /\ probabilities[i]["VEGETABLE"] = probabilities[i]["BOOK"]

\* the history entries of the score calls made for test item it
CallsOf(it) == {c \in 1..Len(score_calls) : score_calls[c].item = it}

\* C6: a score call that fails is recorded as -infinity, recognize() never
\* raises, every (item, model) pair is still scored, and an item for which every
\* model fails gets a row of -infinity and the guess None.
C6_ScoreFailureIsNegInf ==
    /\ rpc # "raised"
    /\ \A c \in 1..Len(score_calls) :
        LET e == score_calls[c] IN
        e.call.raises =>
            /\ e.item + 1 <= Len(probabilities) =>
                  /\ e.word \in DOMAIN probabilities[e.item + 1]
                  /\ probabilities[e.item + 1][e.word] = NegInf
            /\ (e.item = word_index /\ rpc = "for_model") =>
                  /\ e.word \in DOMAIN word_prob
                  /\ word_prob[e.word] = NegInf
    /\ rpc = "returned" =>
        /\ Len(score_calls) = n_items * Len(models)
        /\ \A it \in 0..(n_items - 1) : \A j \in 1..Len(models) :
              LET e == score_calls[it * Len(models) + j]
              IN  e.item = it /\ e.word = models[j]
    /\ \A i \in 1..Len(probabilities) :
        (\A c \in CallsOf(i - 1) : score_calls[c].call.raises) =>
            /\ \A w \in DOMAIN probabilities[i] : probabilities[i][w] = NegInf
            /\ guesses[i] = None

\* recognize() returned after every model failed on the first item and, on the
\* second item, the first model failed and the second was still scored and won
C6_Witness ==
    /\ rpc = "returned"
    /\ n_items = 2
    /\ Len(models) = 2
    /\ \A c \in CallsOf(0) : score_calls[c].call.raises
    /\ guesses[1] = None
    /\ score_calls[3].call.raises
    /\ ~score_calls[4].call.raises
    /\ guesses[2] = models[2]

\* C9: both lists have one entry per test item, entry i belongs to test item i,
\* and every row has exactly the keys of models.
C9_OutputArityAndOrder ==
    /\ Len(probabilities) = Len(guesses)
    /\ rpc \in {"for_item", "for_model"} => Len(probabilities) = word_index
    /\ rpc = "returned" => Len(probabilities) = n_items
    /\ \A i \in 1..Len(probabilities) :
        /\ DOMAIN probabilities[i] = {models[j] : j \in 1..Len(models)}
        /\ \A w \in DOMAIN probabilities[i] :
              \E c \in CallsOf(i - 1) :
                  /\ score_calls[c].word = w
                  /\ probabilities[i][w] = IF score_calls[c].call.raises THEN NegInf
                                           ELSE score_calls[c].call.value

\* recognize() returned two rows over two models, and the rows differ
C9_Witness ==
    /\ rpc = "returned"
    /\ n_items = 2
    /\ Len(models) = 2
    /\ Len(probabilities) = 2
    /\ probabilities[1] # probabilities[2]

----------------------------------------------------------------------------
(* Properties of the selectors, checked under Spec *)

\* the candidates whose fit and scoring all succeeded
Succeeded == {i \in 1..Len(attempts) : attempts[i].exc = "none"}

RECURSIVE SumInts(_, _)
SumInts(s, n) == IF n = 0 THEN 0 ELSE SumInts(s, n - 1) + s[n]

\* BIC = -2 L + p ln N with p = k^2 + 2 k d - 1, in thousandths, negated so that
\* larger is better
NegBicOf(i) ==
    LET k == attempts[i].k
    IN  -((-2 * attempts[i].logL) * 1000
          + (k * k + 2 * k * self.n_features - 1) * LnMilli(self.n_frames))

\* DIC = L - mean(log-likelihoods on the other words), times the number of other
\* words (the same for every candidate)
DicOf(i) ==
    LET o == attempts[i].others
    IN  attempts[i].logL * Len(o) - SumInts(o, Len(o))

CriterionOf(i) == IF strategy = "BIC" THEN NegBicOf(i) ELSE DicOf(i)

\* C2: SelectorBIC returns the model of the succeeded candidate with the minimum
\* BIC, SelectorDIC (two words or more) the one with the maximum DIC; a failed
\* candidate never wins, and among equal values the lowest k wins.
C2_BestCriterionWins ==
    (/\ pc = "done"
     /\ \/ strategy = "BIC"
        \/ strategy = "DIC" /\ Cardinality(self.words) >= 2)
    => IF Succeeded = {}
         THEN result = NoModel
         ELSE \E i \in Succeeded :
                /\ result = FullModel(attempts[i].k)
                /\ \A j \in Succeeded :
                      /\ CriterionOf(j) <= CriterionOf(i)
                      /\ CriterionOf(j) = CriterionOf(i) => attempts[i].k <= attempts[j].k

\* SelectorBIC.select returned after one candidate failed, two tied on the
\* minimum BIC and one scored worse; the lower k of the tie is the result
C2_Witness ==
    /\ pc = "done"
    /\ strategy = "BIC"
    /\ \E f \in 1..Len(attempts) : attempts[f].exc # "none"
    /\ \E i, j, w \in Succeeded :
        /\ attempts[i].k < attempts[j].k
        /\ CriterionOf(i) = CriterionOf(j)
        /\ CriterionOf(w) < CriterionOf(i)
        /\ result = FullModel(attempts[i].k)

\* C3 (as claimed): with two or more sequences, the model SelectorCV returns has
\* an average held-out log-likelihood at least that of every candidate whose
\* folds all succeeded and whose full-data fit succeeds.
C3_CvMaxAverageWins ==
    (/\ pc = "done"
     /\ strategy = "CV"
     /\ self.n_sequences >= 2
     /\ result # NoModel)
    => \E i \in 1..Len(attempts) :
          /\ attempts[i].k = result.n_components
          /\ attempts[i].computed
          /\ \A j \in 1..Len(attempts) :
                (attempts[j].computed /\ attempts[j].k \notin full_fit_raises)
                => ~FracLess(attempts[i].value, attempts[j].value)

\* C4: every model SelectorCV stores or returns was fitted on the full data, with
\* the state count of a candidate that was the best so far when it was stored.
C4_CvReturnsFullDataFit ==
    strategy = "CV" =>
        \A m \in {best_model, result} :
            m # NoModel =>
                /\ m.trained_on = "full"
                /\ \E i \in 1..Len(attempts) :
                      /\ attempts[i].k = m.n_components
                      /\ attempts[i].exc = "none"
                      /\ attempts[i].computed
                      /\ \A j \in 1..(i - 1) :
                            attempts[j].computed
                            => FracLess(attempts[j].value, attempts[i].value)

\* SelectorCV.select returned a model on folded sequences while the local
\* variable model holds a fold-trained model of another state count
C4_Witness ==
    /\ pc = "done"
    /\ strategy = "CV"
    /\ self.n_sequences >= 2
    /\ result # NoModel
    /\ model.trained_on = "train_fold"
    /\ model.n_components # result.n_components

\* C5: no fit or score failure leaves select(); the loops run their body for
\* exactly the state counts min..max in ascending order, SelectorConstant for
\* n_constant alone; select() returns None when every candidate failed.
C5_FailuresNeverPropagate ==
    /\ pc # "select_raised"
    /\ (pc \in {"loop", "done"} /\ strategy # "Constant") =>
        \A i \in 1..Len(attempts) :
            /\ attempts[i].k = self.min_n_components + i - 1
            /\ attempts[i].k <= self.max_n_components
    /\ (pc = "done" /\ strategy # "Constant") =>
        Len(attempts) = IF self.max_n_components >= self.min_n_components
                          THEN self.max_n_components - self.min_n_components + 1
                          ELSE 0
    /\ (pc = "done" /\ strategy = "Constant") =>
        /\ Len(attempts) = 1
        /\ attempts[1].k = self.n_constant
    /\ (pc = "done" /\ \A i \in 1..Len(attempts) : attempts[i].exc # "none") =>
        result = NoModel

\* SelectorBIC.select returned a model after base_model returned None for the
\* first of three candidates
C5_Witness ==
    /\ pc = "done"
    /\ strategy = "BIC"
    /\ Len(attempts) = 3
    /\ attempts[1].exc = "AttributeError"
    /\ attempts[2].exc = "none"
    /\ attempts[3].exc = "ValueError"
    /\ result # NoModel

\* C7 (as claimed): on a word with exactly one sequence SelectorCV returns a
\* model whenever the full-data fit of some candidate succeeds.
C7_CvSingleSequenceReturnsModel ==
    (/\ pc = "done"
     /\ strategy = "CV"
     /\ self.n_sequences = 1
     /\ \E k \in self.min_n_components..self.max_n_components : k \notin full_fit_raises)
    => result # NoModel

\* C8 (as claimed): a candidate with at least one successful fold gets the
\* average of its successful folds as its score.
C8_FailedFoldIsSkipped ==
    strategy = "CV" =>
        \A i \in 1..Len(attempts) :
            attempts[i].folds_ok >= 1 =>
                /\ attempts[i].computed
                /\ FracEq(attempts[i].value, <<attempts[i].fold_sum, attempts[i].folds_ok>>)

\* C10 (as claimed): a selector that was constructed has a valid search range
\* and a target word present in both lookups.
C10_ConfigErrorsRaisedAtConstruction ==
    pc \in {"constructed", "loop", "done", "select_raised"} =>
        /\ self.min_n_components <= self.max_n_components
        /\ self.min_n_components >= 1
        /\ self.this_word \in self.words
        /\ self.this_word \in self.hwords

====
